---- MODULE Spec2Model ----
(***************************************************************************)
(* WardenStudio: the local message reconciliation and persistence core.    *)
(*                                                                         *)
(* The renderer holds the ordered view (chatStore.messages) and the chat   *)
(* service (recentMessageCache, userBadges); the main process holds the    *)
(* SQLite tables (viewers, messages).  Every database call of the renderer *)
(* is an ipcRenderer.invoke: the request is queued, the main process       *)
(* serves the requests one at a time in the order they were sent, and the  *)
(* replies resume the awaiting handlers in that same order.  Each handler  *)
(* (chatClient.onMessage, sendMessage, the deletion handlers) is a process *)
(* that runs synchronously from one await to the next.  A step of the      *)
(* model serves the oldest request and runs the handler it resumes up to   *)
(* its next await: the reply travels within one clock tick, and what the   *)
(* renderer does between the database call and the resumption commutes     *)
(* with the database call.                                                 *)
(*                                                                         *)
(* Time is Date.now() in milliseconds.  A timestamp is stored as an ISO    *)
(* string, modelled by the pair <<seconds, milliseconds>> and compared     *)
(* lexicographically, as SQLite compares the TEXT column.                  *)
(***************************************************************************)
EXTENDS Integers, Sequences, FiniteSets, TLC

\* ---------------------------------------------------------------- bounds
MaxObserve == 3
MaxSend == 2
MaxDelete == 1
MaxCalls == 3
MaxFailures == 1
MaxRestarts == 1
MaxBody == 3
MaxSubscriptions == 3
TickMs == 2500
MaxTime == 7500

\* ------------------------------------------------------ program constants
CACHE_DURATION == 5000
WithinMs == 2000
ViewWindowMs == 5000
RecentLimit == 100

\* ------------------------------------------------------ session context
currentUserId == "u1"
broadcasterId == "u1"
Users == {"u1", "u2"}
Bodies == {"a", "b"}
Null == "null"
\* the login and display names a user id can come with
ViewerNames == {"ann", "Ann", "bob"}

\* the login name and the display name the platform reports for a user id
UserName(u) == IF u = "u1" THEN "streamer" ELSE "viewer"
DisplayName(u) == IF u = "u1" THEN "Streamer" ELSE "Viewer"
currentUserName == UserName(currentUserId)
\* the badges the platform attaches to a user's messages
ServerBadges(u) == IF u = "u1" THEN <<"broadcaster:1", "subscriber:0">> ELSE << >>

VARIABLES
    now,                \* Date.now()
    messages,           \* chatStore.messages, the ordered view
    dbMessages,         \* the messages table, in rowid order
    viewers,            \* the viewers table, in rowid order
    recentMessageCache, \* TwitchChatService.recentMessageCache: body -> time
    userBadges,         \* TwitchChatService.userBadges
    handlers,           \* the chatClient.onMessage calls, in arrival order
    deletions,          \* the deletion handlers started so far
    ipcRequests,        \* invoke() calls sent to the main process, FIFO
    wire,               \* the messages the platform has delivered, by server id
    sends,              \* the sendMessage calls, with the server id of the echo
    consoleErrors,      \* the number of console.error lines written
    lastReadMessageId,  \* chatStore.lastReadMessageId, the read watermark
    localStorage,       \* localStorage's item 'lastReadMessageId'
    appStarts,          \* the number of times the app has been started again
    emotes,             \* a message body, its emote offsets, and parseEmotes' result
    isConnected,        \* chatStore.isConnected: the chat client is connected
    subWire,            \* the subscription notifications EventSub has delivered
    dbSubscriptions,    \* the subscriptions table, in rowid order
    connection          \* the connect effect, the chat client and the EventSub listener

vars == <<now, messages, dbMessages, viewers, recentMessageCache, userBadges,
          handlers, deletions, ipcRequests, wire, sends, consoleErrors,
          lastReadMessageId, localStorage, appStarts, emotes, isConnected,
          subWire, dbSubscriptions, connection>>

\* ------------------------------------------------------------- helpers
Last(s) == s[Len(s)]

SeqIds(s) == {s[i].id : i \in DOMAIN s}

IndexOfId(s, id) == CHOOSE i \in DOMAIN s : s[i].id = id

Abs(x) == IF x < 0 THEN -x ELSE x

\* `self-${Date.now()}-${random}`: a pending id; a server id otherwise
SelfMessageId(k) == <<"self", k>>
ServerId(k) == <<"srv", k>>
startsWithSelf(id) == id[1] = "self"

\* Date.prototype.toISOString, and new Date(iso).getTime()
toISOString(t) == <<t \div 1000, t % 1000>>
DateParse(iso) == iso[1] * 1000 + iso[2]
\* SQLite's comparison of two ISO strings: a > b
IsoGreater(a, b) == a[1] > b[1] \/ (a[1] = b[1] /\ a[2] > b[2])

NoId == <<Null, 0>>

NoMessage == [id |-> NoId, userId |-> Null, username |-> Null,
              message |-> Null, timestamp |-> 0, badges |-> << >>,
              isDeleted |-> FALSE]

\* ---------------------------------------------------- chatStore (view)
isChatMessage(item) == item.message # Null

\* the index of the first self- message that the incoming message replaces, or 0
selfMessageIndex(state, message) ==
    LET hits == {i \in DOMAIN state :
                    /\ isChatMessage(state[i])
                    /\ startsWithSelf(state[i].id)
                    /\ state[i].username = message.username
                    /\ state[i].message = message.message
                    /\ Abs(state[i].timestamp - message.timestamp) < ViewWindowMs}
    IN IF hits = {} THEN 0 ELSE CHOOSE i \in hits : \A j \in hits : i <= j

\* a faulty addMessage: a new message goes to the front of the list
addMessagePrepending(state, message) ==
    IF message.id \in SeqIds(state) THEN state
    ELSE IF ~startsWithSelf(message.id) /\ selfMessageIndex(state, message) # 0
         THEN [state EXCEPT ![selfMessageIndex(state, message)] = message]
         ELSE <<message>> \o state

\* a faulty addMessage: no check for a message with the same id
addMessageNoDedup(state, message) ==
    IF ~startsWithSelf(message.id) /\ selfMessageIndex(state, message) # 0
    THEN [state EXCEPT ![selfMessageIndex(state, message)] = message]
    ELSE Append(state, message)

addMessage(state, message) ==
    IF message.id \in SeqIds(state) THEN state
    ELSE IF ~startsWithSelf(message.id) /\ selfMessageIndex(state, message) # 0
         THEN [state EXCEPT ![selfMessageIndex(state, message)] = message]
         ELSE Append(state, message)

\* a faulty deleteMessage: drops the message from the list instead of flagging
deleteMessageRemoving(state, messageId) ==
    SelectSeq(state, LAMBDA item :
        ~(isChatMessage(item) /\ item.id = messageId))

deleteMessage(state, messageId) ==
    [i \in DOMAIN state |->
        IF isChatMessage(state[i]) /\ state[i].id = messageId
        THEN [state[i] EXCEPT !.isDeleted = TRUE]
        ELSE state[i]]

\* state.messages.findIndex(msg => msg.id === messageId), from 1; 0 for -1
findIndex(state, messageId) ==
    LET hits == {i \in DOMAIN state : state[i].id = messageId}
    IN IF hits = {} THEN 0 ELSE CHOOSE i \in hits : \A j \in hits : i <= j

\* a faulty markAsRead: the watermark moves to the last message of the view
markAsReadLast(state, lastRead, messageId) ==
    IF findIndex(state, messageId) = 0 THEN lastRead ELSE Last(state).id

\* the lastReadMessageId that markAsRead(messageId) leaves
markAsRead(state, lastRead, messageId) ==
    IF findIndex(state, messageId) = 0 THEN lastRead ELSE messageId

\* the isRead flag the message list computes for the message at index
\* a faulty markAllAsRead: takes the first message of the list
markAllAsReadFirst(state, lastRead) ==
    IF Len(state) = 0 THEN lastRead ELSE state[1].id

\* chatStore.markAllAsRead: the new value of lastReadMessageId
markAllAsRead(state, lastRead) ==
    IF Len(state) = 0 THEN lastRead ELSE state[Len(state)].id

isRead(state, lastRead, index) ==
    LET lastReadIndex == IF lastRead # NoId THEN findIndex(state, lastRead) ELSE 0
    IN lastReadIndex >= 1 /\ index <= lastReadIndex

\* ------------------------------------------------------------ emoteParser
\* a message body as its characters, by length
BodyText(len) == SubSeq(<<"a", "b", "c", "d", "e">>, 1, len)

\* text.substring(start, end) for 0 <= start <= end
substring(text, start, end) ==
    SubSeq(text, start + 1, IF end > Len(text) THEN Len(text) ELSE end)

\* the EmotePosition of one "start-end" entry of an emote id
EmotePosition(text, id, pos) ==
    [start |-> pos[1], end |-> pos[2] + 1, id |-> id,
     code |-> substring(text, pos[1], pos[2] + 1)]

\* emoteOffsets.forEach((positions, id) => for (const pos of positions) push)
RECURSIVE PushEmotes(_, _)
PushEmotes(text, emoteOffsets) ==
    IF emoteOffsets = << >> THEN << >>
    ELSE LET entry == Head(emoteOffsets)
         IN [k \in DOMAIN entry.positions |->
                EmotePosition(text, entry.id, entry.positions[k])]
            \o PushEmotes(text, Tail(emoteOffsets))

\* emotes.sort((a, b) => a.start - b.start): a stable sort
RECURSIVE sortByStart(_)
sortByStart(list) ==
    IF list = << >> THEN << >>
    ELSE LET first == CHOOSE i \in DOMAIN list : \A j \in DOMAIN list \ {i} :
                        \/ list[j].start > list[i].start
                        \/ (list[j].start = list[i].start /\ i < j)
         IN <<list[first]>> \o
            sortByStart([k \in 1..(Len(list) - 1) |->
                            IF k < first THEN list[k] ELSE list[k + 1]])

\* a faulty parseEmotes: the positions are left in the order of the map
parseEmotesUnsorted(text, emoteOffsets) == PushEmotes(text, emoteOffsets)

\* parseEmotes(text, emoteOffsets): the map's entries are id -> "start-end"
\* strings with an inclusive end, in the map's order
parseEmotes(text, emoteOffsets) == sortByStart(PushEmotes(text, emoteOffsets))

\* ------------------------------------------ TwitchEventSubService (events)
\* `sub-${event.userId}-${Date.now()}`
SubscriptionId(userId, t) == <<"sub", userId, t>>

\* the SubscriptionEvent the service hands to onSubscriptionCallback
SubscriptionEvent(userId, t) ==
    [id |-> SubscriptionId(userId, t), type |-> "sub", userId |-> userId,
     channelId |-> broadcasterId, timestamp |-> t, message |-> Null]

\* chatStore.addSubscription
addSubscription(state, subscription) ==
    IF subscription.id \in SeqIds(state) THEN state
    ELSE Append(state, subscription)

\* ------------------------------------------------- DatabaseService (store)
\* the ids of the viewers table, and the row of an id
ViewerIds(table) == {table[i].id : i \in DOMAIN table}
ViewerRow(table, id) == table[CHOOSE i \in DOMAIN table : table[i].id = id]

\* a faulty upsertViewer: a plain INSERT into a table without a key
upsertViewerAppending(table, id, username, displayName) ==
    Append(table, [id |-> id, username |-> username, displayName |-> displayName])

\* INSERT INTO viewers ... ON CONFLICT(id) DO UPDATE SET username, displayName
upsertViewer(table, id, username, displayName) ==
    IF id \in ViewerIds(table)
    THEN [i \in DOMAIN table |->
            IF table[i].id = id
            THEN [id |-> id, username |-> username, displayName |-> displayName]
            ELSE table[i]]
    ELSE Append(table, [id |-> id, username |-> username,
                        displayName |-> displayName])

\* the row INSERT INTO messages writes for a message object
MessageRow(message, channelId) ==
    [id |-> message.id, userId |-> message.userId, channelId |-> channelId,
     message |-> message.message, timestamp |-> toISOString(message.timestamp),
     badges |-> message.badges, isDeleted |-> 0]

\* a faulty insertMessage: INSERT OR REPLACE instead of ON CONFLICT(id) DO NOTHING
insertOrReplaceMessage(table, row) ==
    IF row.id \in SeqIds(table)
    THEN [table EXCEPT ![IndexOfId(table, row.id)] = row]
    ELSE Append(table, row)

insertMessage(table, row) ==
    IF row.id \in SeqIds(table) THEN table ELSE Append(table, row)

\* the rows findRecentSelfMessage's WHERE clause selects
RecentSelfRows(table, userId, channelId, messageText, withinMs, t) ==
    {i \in DOMAIN table :
        /\ table[i].userId = userId
        /\ table[i].channelId = channelId
        /\ table[i].message = messageText
        /\ startsWithSelf(table[i].id)
        /\ IsoGreater(table[i].timestamp, toISOString(t - withinMs))}

\* a faulty findRecentSelfMessage: ORDER BY timestamp ASC
findOldestSelfMessage(table, userId, channelId, messageText, withinMs, t) ==
    LET rows == RecentSelfRows(table, userId, channelId, messageText, withinMs, t)
    IN IF rows = {} THEN {NoId}
       ELSE {table[i].id : i \in {r \in rows :
                \A q \in rows : ~IsoGreater(table[r].timestamp, table[q].timestamp)}}

\* ORDER BY timestamp DESC LIMIT 1: the ids a query may return (NoId: no row);
\* SQL leaves the order of rows with equal timestamps open
findRecentSelfMessage(table, userId, channelId, messageText, withinMs, t) ==
    LET rows == RecentSelfRows(table, userId, channelId, messageText, withinMs, t)
    IN IF rows = {} THEN {NoId}
       ELSE {table[i].id : i \in {r \in rows :
                \A q \in rows : ~IsoGreater(table[q].timestamp, table[r].timestamp)}}

\* UPDATE messages SET id = ?, timestamp = ?, badges = ? WHERE id = oldId.
\* id is the PRIMARY KEY: the statement throws when another row holds the new id.
updateMessageThrows(table, oldId, updates) ==
    /\ oldId \in SeqIds(table)
    /\ updates.id # oldId
    /\ updates.id \in SeqIds(table)

\* a faulty updateMessage: the id column is not a key, the UPDATE always goes through
updateMessageNoKey(table, oldId, updates) ==
    IF oldId \notin SeqIds(table) THEN table
    ELSE [table EXCEPT ![IndexOfId(table, oldId)] =
            [@ EXCEPT !.id = updates.id,
                      !.timestamp = toISOString(updates.timestamp),
                      !.badges = updates.badges]]

\* a faulty updateMessage: the key is rewritten, the other columns are not
updateMessageIdOnly(table, oldId, updates) ==
    IF oldId \notin SeqIds(table) \/ updateMessageThrows(table, oldId, updates)
    THEN table
    ELSE [table EXCEPT ![IndexOfId(table, oldId)] = [@ EXCEPT !.id = updates.id]]

updateMessage(table, oldId, updates) ==
    IF oldId \notin SeqIds(table) \/ updateMessageThrows(table, oldId, updates)
    THEN table
    ELSE [table EXCEPT ![IndexOfId(table, oldId)] =
            [@ EXCEPT !.id = updates.id,
                      !.timestamp = toISOString(updates.timestamp),
                      !.badges = updates.badges]]

\* a faulty markMessageAsDeleted: SET isDeleted = 1 - isDeleted
markMessageAsDeletedToggling(table, messageId) ==
    [i \in DOMAIN table |->
        IF table[i].id = messageId
        THEN [table[i] EXCEPT !.isDeleted = 1 - table[i].isDeleted]
        ELSE table[i]]

\* a faulty markMessageAsDeleted: the UPDATE matches no row
markMessageAsDeletedNever(table, messageId) == table

markMessageAsDeleted(table, messageId) ==
    [i \in DOMAIN table |->
        IF table[i].id = messageId THEN [table[i] EXCEPT !.isDeleted = 1]
        ELSE table[i]]

\* a faulty count: rows flagged deleted are left out
getMessageCountLive(table, userId, channelId) ==
    Cardinality({i \in DOMAIN table :
        /\ table[i].userId = userId
        /\ table[i].channelId = channelId
        /\ table[i].isDeleted = 0})

\* SELECT COUNT(*) FROM messages WHERE userId = ? AND channelId = ?
getMessageCountByUserId(table, userId, channelId) ==
    Cardinality({i \in DOMAIN table :
        /\ table[i].userId = userId
        /\ table[i].channelId = channelId})


\* ORDER BY m.timestamp DESC names no second key, so the order of rows with
\* equal timestamps is the query plan's: with the search on idx_messages_channelId
\* and a sorter the descending result keeps equal rows in rowid order; with the
\* backward scan of idx_messages_timestamp it has them in reverse rowid order
QueryPlans == {"idx_messages_channelId", "idx_messages_timestamp"}

\* the rows of the set S as rows.reverse() leaves them: ascending by timestamp,
\* rows with equal timestamps in the reverse of the plan's order
RECURSIVE OrderByTimestamp(_, _, _)
OrderByTimestamp(table, S, plan) ==
    IF S = {} THEN << >>
    ELSE LET first == CHOOSE i \in S : \A j \in S \ {i} :
                        \/ IsoGreater(table[j].timestamp, table[i].timestamp)
                        \/ /\ table[j].timestamp = table[i].timestamp
                           /\ IF plan = "idx_messages_timestamp"
                              THEN i < j ELSE j < i
         IN <<first>> \o OrderByTimestamp(table, S \ {first}, plan)

\* SELECT ... FROM messages m INNER JOIN viewers v ON m.userId = v.id
\* WHERE m.channelId = ? ORDER BY m.timestamp DESC LIMIT ?, then reversed
getRecentMessages(table, viewersTable, channelId, limit, plan) ==
    LET joined == {i \in DOMAIN table :
                      /\ table[i].channelId = channelId
                      /\ table[i].userId \in ViewerIds(viewersTable)}
        ascending == OrderByTimestamp(table, joined, plan)
        rows == IF Len(ascending) > limit
                THEN SubSeq(ascending, Len(ascending) - limit + 1, Len(ascending))
                ELSE ascending
    IN [k \in DOMAIN rows |->
          [id |-> table[rows[k]].id,
           userId |-> table[rows[k]].userId,
           username |-> ViewerRow(viewersTable, table[rows[k]].userId).username,
           message |-> table[rows[k]].message,
           timestamp |-> table[rows[k]].timestamp,
           badges |-> table[rows[k]].badges,
           isDeleted |-> table[rows[k]].isDeleted = 1]]

\* items.sort((a, b) => a.timestamp - b.timestamp): a stable sort
RECURSIVE sortByTimestamp(_)
sortByTimestamp(items) ==
    IF items = << >> THEN << >>
    ELSE LET first == CHOOSE i \in DOMAIN items : \A j \in DOMAIN items \ {i} :
                        \/ items[j].timestamp > items[i].timestamp
                        \/ (items[j].timestamp = items[i].timestamp /\ i < j)
         IN <<items[first]>> \o
            sortByTimestamp([k \in 1..(Len(items) - 1) |->
                                IF k < first THEN items[k] ELSE items[k + 1]])

\* chatStore.loadFromDatabase: the view rebuilt from the rows of the store
loadFromDatabase(dbRows) ==
    sortByTimestamp([k \in DOMAIN dbRows |->
        [id |-> dbRows[k].id,
         userId |-> dbRows[k].userId,
         username |-> dbRows[k].username,
         message |-> dbRows[k].message,
         timestamp |-> DateParse(dbRows[k].timestamp),
         badges |-> dbRows[k].badges,
         isDeleted |-> dbRows[k].isDeleted]])

\* ------------------------------------------------------------ processes
\* no message is being parsed
NoEmotes ==
    [text |-> << >>, emoteOffsets |-> << >>, parsed |-> FALSE, positions |-> << >>]

\* the emote ids of a message and the "start-end" ranges within a body
EmoteIds == {"25", "1902"}
EmoteRanges(len) ==
    {<<start, end>> : start \in 0..(len - 1), end \in 0..(len - 1)}
        \ {r \in (0..(len - 1)) \X (0..(len - 1)) : r[1] > r[2]}
PositionLists(len) ==
    {<<r>> : r \in EmoteRanges(len)}
        \cup {<<r, q>> : r \in EmoteRanges(len), q \in EmoteRanges(len)}
EmoteEntries(len) ==
    {[id |-> id, positions |-> positions] :
        id \in EmoteIds, positions \in PositionLists(len)}

\* all the ranges of a map, in the map's order
RECURSIVE AllRanges(_)
AllRanges(emoteOffsets) ==
    IF emoteOffsets = << >> THEN << >>
    ELSE Head(emoteOffsets).positions \o AllRanges(Tail(emoteOffsets))

\* what the platform sends: one entry per emote id, and no two ranges share a
\* character of the body
WellFormedOffsets(emoteOffsets) ==
    /\ \A i, j \in DOMAIN emoteOffsets :
          i # j => emoteOffsets[i].id # emoteOffsets[j].id
    /\ LET ranges == AllRanges(emoteOffsets)
       IN \A i, j \in DOMAIN ranges :
             i < j => (ranges[i][2] < ranges[j][1] \/ ranges[j][2] < ranges[i][1])

EmoteOffsetMaps(len) ==
    {m \in {<< >>} \cup {<<x>> : x \in EmoteEntries(len)}
              \cup {<<x, y>> : x \in EmoteEntries(len), y \in EmoteEntries(len)} :
        WellFormedOffsets(m)}

NoViewer == << >>

\* a chatClient.onMessage call: where it is, the message it builds, its arrival
Handler(pc, msg, arrivedAt) == [pc |-> pc, msg |-> msg, arrivedAt |-> arrivedAt]

HandlerDone(h) == Handler("done", [NoMessage EXCEPT !.id = h.msg.id], 0)

Request(kind, p, op, arg) == [kind |-> kind, proc |-> p, op |-> op, arg |-> arg]

\* the main process serves the oldest request, sent by a handler of this kind
Serving(kind, op) ==
    /\ ipcRequests # << >>
    /\ Head(ipcRequests).op = op
    /\ Head(ipcRequests).kind = kind

\* the connect effect has run to its end: the session is connected
Connected ==
    [effect |-> "App", pc |-> "done", chatClient |-> TRUE,
     eventSubListener |-> TRUE, isConnectedRef |-> TRUE, cleanedUp |-> FALSE]

Init ==
    /\ now = TickMs
    /\ messages = << >>
    /\ dbMessages = << >>
    /\ viewers = NoViewer
    /\ recentMessageCache = [b \in {} |-> 0]
    /\ userBadges = << >>
    /\ handlers = << >>
    /\ deletions = << >>
    /\ ipcRequests = << >>
    /\ wire = << >>
    /\ sends = << >>
    /\ consoleErrors = 0
    /\ lastReadMessageId = NoId
    /\ localStorage = NoId
    /\ appStarts = 0
    /\ emotes = NoEmotes
    /\ isConnected = TRUE
    /\ subWire = << >>
    /\ dbSubscriptions = << >>
    /\ connection = Connected

\* ----------------------------------- chatClient.onMessage, up to the first await
OnMessage(k, w) ==
    /\ handlers' = Append(handlers,
          Handler("upsertViewer",
                  [NoMessage EXCEPT !.id = ServerId(k), !.userId = w.userId,
                                    !.username = UserName(w.userId),
                                    !.message = w.message, !.badges = w.badges],
                  now))
    /\ userBadges' = IF UserName(w.userId) = currentUserName THEN w.badges
                     ELSE userBadges
    /\ ipcRequests' = Append(ipcRequests,
          Request("msg", Len(handlers) + 1, "upsertViewer",
                  [id |-> w.userId, username |-> UserName(w.userId),
                   displayName |-> DisplayName(w.userId)]))
    /\ UNCHANGED <<now, messages, dbMessages, viewers, recentMessageCache,
                   deletions, consoleErrors, lastReadMessageId, localStorage,
                   appStarts, emotes, isConnected,
                   subWire, dbSubscriptions, connection>>

\* the handler starts, within the bounds on the number of calls
OnMessageStart(k, w) ==
    /\ Len(handlers) < MaxObserve
    /\ Len(handlers) + Len(sends) < MaxCalls
    /\ OnMessage(k, w)

WireMessage(userId, message, echoOf) ==
    [userId |-> userId, message |-> message, badges |-> ServerBadges(userId),
     echoOf |-> echoOf]

\* a delivered message with the author and the body of a local-pending message
IsEchoLike(w, pending) ==
    /\ w.userId = pending.userId
    /\ w.message = pending.message

\* history: the sends whose pending message sees a matching message arrive
\* before the merge window has elapsed
sendsObserving(w) ==
    [s \in DOMAIN sends |->
        IF /\ sends[s].pc # "say"
           /\ IsEchoLike(w, sends[s].msg)
           /\ now - sends[s].msg.timestamp < WithinMs
        THEN [sends[s] EXCEPT !.observedInWindow = TRUE]
        ELSE sends[s]]

\* the platform delivers a message of another user
ObserveNew ==
    \E userId \in Users \ {currentUserId}, message \in Bodies :
        /\ wire' = Append(wire, WireMessage(userId, message, 0))
        /\ OnMessageStart(Len(wire) + 1, Last(wire'))
        /\ sends' = sendsObserving(Last(wire'))

\* the platform delivers the echo of a message sent from this client; history:
\* echoedDuring is the step sendMessage was at when its echo was delivered
ObserveEchoOf(s) ==
    /\ sends[s].echoId = NoId
    /\ wire' = Append(wire, WireMessage(currentUserId, sends[s].msg.message, s))
    /\ sends' = [sendsObserving(Last(wire')) EXCEPT
                    ![s].echoId = ServerId(Len(wire) + 1),
                    ![s].echoedDuring = sends[s].pc]
    /\ OnMessageStart(Len(wire) + 1, Last(wire'))

ObserveEcho == \E s \in DOMAIN sends : ObserveEchoOf(s)

\* the echo is delivered after sendMessage has returned
ObserveEchoAfterSend ==
    \E s \in DOMAIN sends : sends[s].pc = "done" /\ ObserveEchoOf(s)

\* every send is echoed once, after sendMessage has returned
ObserveEchoOfEverySend ==
    \E s \in DOMAIN sends :
        /\ sends[s].pc = "done"
        /\ sends[s].echoId = NoId
        /\ wire' = Append(wire,
                          WireMessage(currentUserId, sends[s].msg.message, s))
        /\ sends' = [sendsObserving(Last(wire')) EXCEPT
                        ![s].echoId = ServerId(Len(wire) + 1),
                        ![s].echoedDuring = sends[s].pc]
        /\ OnMessage(Len(wire) + 1, Last(wire'))

\* the platform delivers a message once more (at-least-once delivery)
ObserveAgain ==
    \E k \in DOMAIN wire :
        /\ OnMessageStart(k, wire[k])
        /\ sends' = sendsObserving(wire[k])
        /\ UNCHANGED wire

\* ----------------------------- chatClient.onMessage, after await upsertViewer
InsertRequest(kind, p, message) ==
    Request(kind, p, "insertMessage", MessageRow(message, broadcasterId))

cacheHit(cache, text, t) ==
    /\ text \in DOMAIN cache
    /\ cache[text] # 0
    /\ t - cache[text] < CACHE_DURATION

MsgUpsertViewer ==
    /\ Serving("msg", "upsertViewer")
    /\ LET req == Head(ipcRequests)
           p == req.proc
           chatMessage == [handlers[p].msg EXCEPT !.timestamp = now]
       IN /\ viewers' = upsertViewer(viewers, req.arg.id, req.arg.username,
                                     req.arg.displayName)
          /\ IF /\ chatMessage.userId = currentUserId
                /\ cacheHit(recentMessageCache, chatMessage.message, now)
             THEN /\ handlers' = [handlers EXCEPT ![p] =
                        Handler("findRecentSelfMessage", chatMessage, @.arrivedAt)]
                  /\ ipcRequests' = Append(Tail(ipcRequests),
                        Request("msg", p, "findRecentSelfMessage",
                                [userId |-> chatMessage.userId,
                                 channelId |-> broadcasterId,
                                 messageText |-> chatMessage.message,
                                 withinMs |-> WithinMs]))
             ELSE /\ handlers' = [handlers EXCEPT ![p] =
                        Handler("insertMessage", chatMessage, @.arrivedAt)]
                  /\ ipcRequests' = Append(Tail(ipcRequests),
                                           InsertRequest("msg", p, chatMessage))
    /\ UNCHANGED <<now, messages, dbMessages, recentMessageCache, userBadges,
                   deletions, wire, sends, consoleErrors, lastReadMessageId,
                   localStorage, appStarts, emotes, isConnected,
                   subWire, dbSubscriptions, connection>>

\* ------------------- chatClient.onMessage, after await findRecentSelfMessage
MsgFindRecentSelfMessage ==
    /\ Serving("msg", "findRecentSelfMessage")
    /\ LET req == Head(ipcRequests)
           p == req.proc
           chatMessage == handlers[p].msg
       IN \E recentSelfMessage \in findRecentSelfMessage(dbMessages,
                req.arg.userId, req.arg.channelId, req.arg.messageText,
                req.arg.withinMs, now) :
          /\ recentMessageCache' =
                [b \in DOMAIN recentMessageCache \ {chatMessage.message} |->
                    recentMessageCache[b]]
          /\ IF recentSelfMessage # NoId
             THEN /\ handlers' = [handlers EXCEPT ![p].pc = "updateMessage"]
                  /\ ipcRequests' = Append(Tail(ipcRequests),
                        Request("msg", p, "updateMessage",
                                [oldId |-> recentSelfMessage,
                                 updates |-> [id |-> chatMessage.id,
                                              badges |-> chatMessage.badges,
                                              timestamp |-> now]]))
             ELSE /\ handlers' = [handlers EXCEPT ![p].pc = "insertMessage"]
                  /\ ipcRequests' = Append(Tail(ipcRequests),
                                           InsertRequest("msg", p, chatMessage))
    /\ UNCHANGED <<now, messages, dbMessages, viewers, userBadges, deletions,
                   wire, sends, consoleErrors, lastReadMessageId,
                   localStorage, appStarts, emotes, isConnected,
                   subWire, dbSubscriptions, connection>>

\* chatClient.onMessage, after await updateMessage: a throw is caught and
\* logged, and the onMessageCallback (addMessage) runs either way
MsgUpdateMessage ==
    /\ Serving("msg", "updateMessage")
    /\ LET req == Head(ipcRequests)
       IN /\ dbMessages' = updateMessage(dbMessages, req.arg.oldId, req.arg.updates)
          /\ consoleErrors' =
                IF updateMessageThrows(dbMessages, req.arg.oldId, req.arg.updates)
                THEN consoleErrors + 1 ELSE consoleErrors
          /\ messages' = addMessage(messages, handlers[req.proc].msg)
          /\ handlers' = [handlers EXCEPT ![req.proc] = HandlerDone(@)]
    /\ ipcRequests' = Tail(ipcRequests)
    /\ UNCHANGED <<now, viewers, recentMessageCache, userBadges, deletions,
                   wire, sends, lastReadMessageId, localStorage, appStarts,
                   emotes, isConnected,
                   subWire, dbSubscriptions, connection>>

\* chatClient.onMessage, after await insertMessage
MsgInsertMessage ==
    /\ Serving("msg", "insertMessage")
    /\ LET req == Head(ipcRequests)
       IN /\ dbMessages' = insertMessage(dbMessages, req.arg)
          /\ messages' = addMessage(messages, handlers[req.proc].msg)
          /\ handlers' = [handlers EXCEPT ![req.proc] = HandlerDone(@)]
    /\ ipcRequests' = Tail(ipcRequests)
    /\ UNCHANGED <<now, viewers, recentMessageCache, userBadges, deletions,
                   wire, sends, consoleErrors, lastReadMessageId,
                   localStorage, appStarts, emotes, isConnected,
                   subWire, dbSubscriptions, connection>>

\* ------------------------------------------------------------ sendMessage
NewSend(message) ==
    [pc |-> "say", msg |-> [NoMessage EXCEPT !.message = message],
     echoId |-> NoId, observedInWindow |-> FALSE, echoedDuring |-> Null]

SendMessage ==
    \E message \in Bodies :
        /\ Len(sends) < MaxSend
        /\ Len(handlers) + Len(sends) < MaxCalls
        /\ sends' = Append(sends, NewSend(message))
        /\ UNCHANGED <<now, messages, dbMessages, viewers, recentMessageCache,
                       userBadges, handlers, deletions, ipcRequests, wire,
                       consoleErrors, lastReadMessageId, localStorage,
                       appStarts, emotes, isConnected,
                       subWire, dbSubscriptions, connection>>

\* the badges sendMessage gives the local-pending message
selfBadges(badges) ==
    IF Len(badges) > 0 THEN badges
    ELSE IF currentUserId = broadcasterId THEN <<"broadcaster:1">> ELSE << >>

\* recentMessageCache.set(cacheKey, Date.now()), then the old entries are dropped
cacheAfterSend(cache, text, t) ==
    LET set == [b \in DOMAIN cache \cup {text} |-> IF b = text THEN t ELSE cache[b]]
    IN [b \in {c \in DOMAIN set : ~(t - set[c] > CACHE_DURATION)} |-> set[b]]

\* sendMessage, after await chatClient.say
SayResolved ==
    \E s \in DOMAIN sends :
        /\ sends[s].pc = "say"
        /\ LET chatMessage ==
                  [id |-> SelfMessageId(s),
                   userId |-> currentUserId,
                   username |-> currentUserName,
                   message |-> sends[s].msg.message,
                   timestamp |-> now,
                   badges |-> selfBadges(userBadges),
                   isDeleted |-> FALSE]
           IN /\ sends' = [sends EXCEPT
                    ![s].pc = "insertMessage",
                    ![s].msg = chatMessage,
                    ![s].observedInWindow =
                        \E k \in DOMAIN wire : IsEchoLike(wire[k], chatMessage)]
              /\ recentMessageCache' =
                    cacheAfterSend(recentMessageCache, chatMessage.message, now)
              /\ ipcRequests' = Append(ipcRequests,
                                       InsertRequest("send", s, chatMessage))
        /\ UNCHANGED <<now, messages, dbMessages, viewers, userBadges,
                       handlers, deletions, wire, consoleErrors,
                       lastReadMessageId, localStorage, appStarts, emotes,
                       isConnected,
                       subWire, dbSubscriptions, connection>>

\* a faulty sendMessage that sets the cache entry before it awaits say
SayRejectedAfterCaching ==
    \E s \in DOMAIN sends :
        /\ sends[s].pc = "say"
        /\ consoleErrors < MaxFailures
        /\ sends' = [sends EXCEPT ![s].pc = "rejected"]
        /\ consoleErrors' = consoleErrors + 1
        /\ recentMessageCache' =
              cacheAfterSend(recentMessageCache, sends[s].msg.message, now)
        /\ UNCHANGED <<now, messages, dbMessages, viewers, userBadges,
                       handlers, deletions, ipcRequests, wire,
                       lastReadMessageId, localStorage, appStarts, emotes,
                       isConnected,
                       subWire, dbSubscriptions, connection>>

\* await chatClient.say rejects: sendMessage throws there, and
\* handleSendMessage catches and logs
SayRejected ==
    \E s \in DOMAIN sends :
        /\ sends[s].pc = "say"
        /\ consoleErrors < MaxFailures
        /\ sends' = [sends EXCEPT ![s].pc = "rejected"]
        /\ consoleErrors' = consoleErrors + 1
        /\ UNCHANGED <<now, messages, dbMessages, viewers, recentMessageCache,
                       userBadges, handlers, deletions, ipcRequests, wire,
                       lastReadMessageId, localStorage, appStarts, emotes,
                       isConnected,
                       subWire, dbSubscriptions, connection>>

\* sendMessage, after await insertMessage: onMessageCallback(chatMessage)
SendInsertMessage ==
    /\ Serving("send", "insertMessage")
    /\ LET req == Head(ipcRequests)
       IN /\ dbMessages' = insertMessage(dbMessages, req.arg)
          /\ messages' = addMessage(messages, sends[req.proc].msg)
          /\ sends' = [sends EXCEPT ![req.proc].pc = "done"]
    /\ ipcRequests' = Tail(ipcRequests)
    /\ UNCHANGED <<now, viewers, recentMessageCache, userBadges, handlers,
                   deletions, wire, consoleErrors, lastReadMessageId,
                   localStorage, appStarts, emotes, isConnected,
                   subWire, dbSubscriptions, connection>>

\* ------------------------------------------- a store call that is rejected
\* the main process throws while it serves the request (the statement fails),
\* the renderer's await rejects
Rejecting(kind, op) ==
    /\ Serving(kind, op)
    /\ consoleErrors < MaxFailures

\* a faulty handler: the rejected upsertViewer ends the onMessage call
MsgUpsertViewerFatal ==
    /\ Rejecting("msg", "upsertViewer")
    /\ handlers' = [handlers EXCEPT ![Head(ipcRequests).proc] = HandlerDone(@)]
    /\ ipcRequests' = Tail(ipcRequests)
    /\ consoleErrors' = consoleErrors + 1
    /\ UNCHANGED <<now, messages, dbMessages, viewers, recentMessageCache,
                   userBadges, deletions, wire, sends, lastReadMessageId,
                   localStorage, appStarts, emotes, isConnected,
                   subWire, dbSubscriptions, connection>>

\* chatClient.onMessage, await upsertViewer rejects: 'Failed to track viewer'
\* is logged and the handler goes on as after a served upsert
MsgUpsertViewerFails ==
    /\ Rejecting("msg", "upsertViewer")
    /\ LET req == Head(ipcRequests)
           p == req.proc
           chatMessage == [handlers[p].msg EXCEPT !.timestamp = now]
       IN IF /\ chatMessage.userId = currentUserId
             /\ cacheHit(recentMessageCache, chatMessage.message, now)
          THEN /\ handlers' = [handlers EXCEPT ![p] =
                     Handler("findRecentSelfMessage", chatMessage, @.arrivedAt)]
               /\ ipcRequests' = Append(Tail(ipcRequests),
                     Request("msg", p, "findRecentSelfMessage",
                             [userId |-> chatMessage.userId,
                              channelId |-> broadcasterId,
                              messageText |-> chatMessage.message,
                              withinMs |-> WithinMs]))
          ELSE /\ handlers' = [handlers EXCEPT ![p] =
                     Handler("insertMessage", chatMessage, @.arrivedAt)]
               /\ ipcRequests' = Append(Tail(ipcRequests),
                                        InsertRequest("msg", p, chatMessage))
    /\ consoleErrors' = consoleErrors + 1
    /\ UNCHANGED <<now, messages, dbMessages, viewers, recentMessageCache,
                   userBadges, deletions, wire, sends, lastReadMessageId,
                   localStorage, appStarts, emotes, isConnected,
                   subWire, dbSubscriptions, connection>>

\* chatClient.onMessage, await updateMessage rejects: 'Failed to save message
\* to database' is logged, the onMessageCallback runs
MsgUpdateMessageFails ==
    /\ Rejecting("msg", "updateMessage")
    /\ LET req == Head(ipcRequests)
       IN /\ messages' = addMessage(messages, handlers[req.proc].msg)
          /\ handlers' = [handlers EXCEPT ![req.proc] = HandlerDone(@)]
    /\ ipcRequests' = Tail(ipcRequests)
    /\ consoleErrors' = consoleErrors + 1
    /\ UNCHANGED <<now, dbMessages, viewers, recentMessageCache, userBadges,
                   deletions, wire, sends, lastReadMessageId, localStorage,
                   appStarts, emotes, isConnected,
                   subWire, dbSubscriptions, connection>>

\* a faulty handler: the rejected insertMessage unwinds the onMessage call,
\* the onMessageCallback never runs
MsgInsertMessageUnwinds ==
    /\ Rejecting("msg", "insertMessage")
    /\ handlers' = [handlers EXCEPT ![Head(ipcRequests).proc] = HandlerDone(@)]
    /\ ipcRequests' = Tail(ipcRequests)
    /\ consoleErrors' = consoleErrors + 1
    /\ UNCHANGED <<now, messages, dbMessages, viewers, recentMessageCache,
                   userBadges, deletions, wire, sends, lastReadMessageId,
                   localStorage, appStarts, emotes, isConnected,
                   subWire, dbSubscriptions, connection>>

\* chatClient.onMessage, await insertMessage rejects: 'Failed to save message
\* to database' is logged, the onMessageCallback runs
MsgInsertMessageFails ==
    /\ Rejecting("msg", "insertMessage")
    /\ LET req == Head(ipcRequests)
       IN /\ messages' = addMessage(messages, handlers[req.proc].msg)
          /\ handlers' = [handlers EXCEPT ![req.proc] = HandlerDone(@)]
    /\ ipcRequests' = Tail(ipcRequests)
    /\ consoleErrors' = consoleErrors + 1
    /\ UNCHANGED <<now, dbMessages, viewers, recentMessageCache, userBadges,
                   deletions, wire, sends, lastReadMessageId, localStorage,
                   appStarts, emotes, isConnected,
                   subWire, dbSubscriptions, connection>>

\* sendMessage, await insertMessage rejects: 'Failed to save sent message to
\* database' is logged, the onMessageCallback runs
SendInsertMessageFails ==
    /\ Rejecting("send", "insertMessage")
    /\ LET req == Head(ipcRequests)
       IN /\ messages' = addMessage(messages, sends[req.proc].msg)
          /\ sends' = [sends EXCEPT ![req.proc].pc = "done"]
    /\ ipcRequests' = Tail(ipcRequests)
    /\ consoleErrors' = consoleErrors + 1
    /\ UNCHANGED <<now, dbMessages, viewers, recentMessageCache, userBadges,
                   handlers, deletions, wire, lastReadMessageId, localStorage,
                   appStarts, emotes, isConnected,
                   subWire, dbSubscriptions, connection>>

\* ------------------------------- eventSubService.onMessageDeleted handler
\* observe(x) has started and x is neither in the view nor written yet
ObserveInProgress(x) ==
    /\ x \notin SeqIds(messages)
    /\ \E p \in DOMAIN handlers :
          handlers[p].msg.id = x /\ handlers[p].pc # "done"

\* history: early tells whether the message was still being observed, local
\* whether the deletion is the local moderation action
ObserveDeletion ==
    \E k \in DOMAIN wire :
        /\ Len(deletions) < MaxDelete
        /\ messages' = deleteMessage(messages, ServerId(k))
        /\ deletions' = Append(deletions,
              [pc |-> "markMessageAsDeleted", messageId |-> ServerId(k),
               success |-> Null, local |-> FALSE,
               early |-> ObserveInProgress(ServerId(k))])
        /\ ipcRequests' = Append(ipcRequests,
              Request("deleted", Len(deletions) + 1, "markMessageAsDeleted",
                      [messageId |-> ServerId(k)]))
        /\ UNCHANGED <<now, dbMessages, viewers, recentMessageCache, userBadges,
                       handlers, wire, sends, consoleErrors,
                       lastReadMessageId, localStorage, appStarts, emotes,
                       isConnected,
                       subWire, dbSubscriptions, connection>>

\* the deletion handler, after await markMessageAsDeleted
DeletedMarkMessageAsDeleted ==
    /\ Serving("deleted", "markMessageAsDeleted")
    /\ LET req == Head(ipcRequests)
       IN /\ dbMessages' = markMessageAsDeleted(dbMessages, req.arg.messageId)
          /\ deletions' = [deletions EXCEPT ![req.proc].pc = "done"]
    /\ ipcRequests' = Tail(ipcRequests)
    /\ UNCHANGED <<now, messages, viewers, recentMessageCache, userBadges,
                   handlers, wire, sends, consoleErrors, lastReadMessageId,
                   localStorage, appStarts, emotes, isConnected,
                   subWire, dbSubscriptions, connection>>

\* ------------------------------------------------ App.handleDeleteMessage
HandleDeleteMessage ==
    \E messageId \in SeqIds(messages) :
        /\ Len(deletions) < MaxDelete
        /\ deletions' = Append(deletions,
              [pc |-> "deleteMessage", messageId |-> messageId,
               success |-> Null, local |-> TRUE, early |-> FALSE])
        /\ UNCHANGED <<now, messages, dbMessages, viewers, recentMessageCache,
                       userBadges, handlers, ipcRequests, wire, sends,
                       consoleErrors, lastReadMessageId, localStorage,
                       appStarts, emotes, isConnected,
                       subWire, dbSubscriptions, connection>>

\* handleDeleteMessage, after await apiService.deleteMessage: the message is
\* flagged in the view whether the remote command succeeded or not
DeleteApiResolved ==
    \E d \in DOMAIN deletions, success \in BOOLEAN :
        /\ deletions[d].pc = "deleteMessage"
        /\ messages' = deleteMessage(messages, deletions[d].messageId)
        /\ deletions' = [deletions EXCEPT ![d].pc = "done",
                                          ![d].success = success]
        /\ UNCHANGED <<now, dbMessages, viewers, recentMessageCache, userBadges,
                       handlers, ipcRequests, wire, sends, consoleErrors,
                       lastReadMessageId, localStorage, appStarts, emotes,
                       isConnected,
                       subWire, dbSubscriptions, connection>>

\* ------------------------------------------------- the user clicks a message
\* markAsRead with the id of a message on screen that is not the watermark yet
MarkAsRead ==
    \E messageId \in SeqIds(messages) :
        /\ lastReadMessageId' = markAsRead(messages, lastReadMessageId, messageId)
        /\ lastReadMessageId' # lastReadMessageId
        /\ localStorage' = messageId
        /\ UNCHANGED <<now, messages, dbMessages, viewers, recentMessageCache,
                       userBadges, handlers, deletions, ipcRequests, wire,
                       sends, consoleErrors, appStarts, emotes, isConnected,
                       subWire, dbSubscriptions, connection>>

\* the user clicks "mark all as read" with a message on screen
MarkAllAsRead ==
    /\ messages # << >>
    /\ lastReadMessageId' = markAllAsRead(messages, lastReadMessageId)
    /\ lastReadMessageId' # lastReadMessageId
    /\ localStorage' = lastReadMessageId'
    /\ UNCHANGED <<now, messages, dbMessages, viewers, recentMessageCache,
                   userBadges, handlers, deletions, ipcRequests, wire,
                   sends, consoleErrors, appStarts, emotes, isConnected,
                   subWire, dbSubscriptions, connection>>

\* ----------------------------------------------- ipcMain 'db-upsert-viewer'
\* the main process serves an upsertViewer for a user whose names may have
\* changed since the last one
UpsertViewerCall ==
    \E id \in Users, username \in ViewerNames, displayName \in ViewerNames :
        /\ viewers' = upsertViewer(viewers, id, username, displayName)
        /\ UNCHANGED <<now, messages, dbMessages, recentMessageCache, userBadges,
                       handlers, deletions, ipcRequests, wire, sends,
                       consoleErrors, lastReadMessageId, localStorage,
                       appStarts, emotes, isConnected,
                       subWire, dbSubscriptions, connection>>

\* ------------------------------------------------ a message is rendered
\* a message with emotes arrives: its body and the emoteOffsets map
InitEmotes ==
    /\ Init!1 /\ Init!2 /\ Init!3 /\ Init!4 /\ Init!5 /\ Init!6 /\ Init!7
    /\ Init!8 /\ Init!9 /\ Init!10 /\ Init!11 /\ Init!12 /\ Init!13
    /\ Init!14 /\ Init!15 /\ Init!17 /\ Init!18 /\ Init!19
    /\ Init!20
    /\ \E len \in 1..MaxBody :
          emotes \in {[text |-> BodyText(len), emoteOffsets |-> m,
                       parsed |-> FALSE, positions |-> << >>] :
                          m \in EmoteOffsetMaps(len)}

ParseEmotes ==
    /\ ~emotes.parsed
    /\ emotes' = [emotes EXCEPT
                    !.parsed = TRUE,
                    !.positions = parseEmotes(emotes.text, emotes.emoteOffsets)]
    /\ UNCHANGED <<now, messages, dbMessages, viewers, recentMessageCache,
                   userBadges, handlers, deletions, ipcRequests, wire, sends,
                   consoleErrors, lastReadMessageId, localStorage, appStarts,
                   isConnected,
                   subWire, dbSubscriptions, connection>>

\* ------------------------------------------------------- logout and restart
\* App.handleLogout, when no call is in progress: clearMessages empties the
\* view and the watermark in memory; the localStorage item is left alone
ClearMessages ==
    /\ ipcRequests = << >>
    /\ \A p \in DOMAIN handlers : handlers[p].pc = "done"
    /\ messages # << >>
    /\ messages' = << >>
    /\ lastReadMessageId' = NoId
    /\ UNCHANGED <<now, dbMessages, viewers, recentMessageCache, userBadges,
                   handlers, deletions, ipcRequests, wire, sends, consoleErrors,
                   localStorage, appStarts, emotes, isConnected,
                   subWire, dbSubscriptions, connection>>

\* App.handleLogout after await clearToken, for the calls in progress that
\* have read the auth store already: the chat client quits (no further
\* message is delivered), clearMessages empties the view and the watermark
Logout ==
    /\ isConnected
    /\ \A i \in DOMAIN ipcRequests :
          ipcRequests[i].op \notin {"upsertViewer", "findRecentSelfMessage"}
    /\ isConnected' = FALSE
    /\ connection' = [connection EXCEPT !.chatClient = FALSE]
    /\ messages' = << >>
    /\ lastReadMessageId' = NoId
    /\ UNCHANGED <<now, dbMessages, viewers, recentMessageCache, userBadges,
                   handlers, deletions, ipcRequests, wire, sends, consoleErrors,
                   localStorage, appStarts, emotes,
                   subWire, dbSubscriptions>>

\* a message of another user is delivered while the chat client is connected
ObserveNewConnected ==
    /\ isConnected
    /\ ObserveNew

\* handleSendMessage returns at once when the chat is not connected
SendMessageConnected ==
    /\ isConnected
    /\ SendMessage

\* the app is closed and started again when no call is in progress: the
\* renderer starts from its initial state and App's mount effect calls
\* loadFromDatabase, which returns at once while authStore.currentUserId is
\* null (it is set by the API service after the token has been validated)
\* and otherwise rebuilds the view and restores the watermark
Restart ==
    /\ appStarts < MaxRestarts
    /\ ipcRequests = << >>
    /\ \A p \in DOMAIN handlers : handlers[p].pc = "done"
    /\ appStarts' = appStarts + 1
    /\ recentMessageCache' = [b \in {} |-> 0]
    /\ userBadges' = << >>
    /\ \E userKnown \in BOOLEAN, plan \in QueryPlans :
          IF userKnown
          THEN /\ messages' = loadFromDatabase(getRecentMessages(dbMessages,
                                  viewers, currentUserId, RecentLimit, plan))
               /\ lastReadMessageId' = localStorage
          ELSE /\ messages' = << >>
               /\ lastReadMessageId' = NoId
    /\ UNCHANGED <<now, dbMessages, viewers, handlers, deletions, ipcRequests,
                   wire, sends, consoleErrors, localStorage, emotes,
                   isConnected,
                   subWire, dbSubscriptions, connection>>

\* ---------------------------------------------------- the connect effect
\* the two connect effects: App's own, and the useChatService hook
Effects == {"App", "useChatService"}

\* the effect has just run: connect() awaits apiService.initialize
InitConnect ==
    /\ Init!1 /\ Init!2 /\ Init!3 /\ Init!4 /\ Init!5 /\ Init!6 /\ Init!7
    /\ Init!8 /\ Init!9 /\ Init!10 /\ Init!11 /\ Init!12 /\ Init!13
    /\ Init!14 /\ Init!15 /\ Init!16 /\ Init!18 /\ Init!19
    /\ isConnected = FALSE
    /\ connection \in {[effect |-> effect, pc |-> "initialize",
                         chatClient |-> FALSE, eventSubListener |-> FALSE,
                         isConnectedRef |-> FALSE, cleanedUp |-> FALSE] :
                            effect \in Effects}

\* apiService.initialize resolves: chatService.connect creates the chat
\* client, eventSubService.connect creates and starts the listener (neither
\* waits for anything), App calls setConnected(true), the hook sets its ref
ApiInitialized ==
    /\ connection.pc = "initialize"
    /\ connection' = [connection EXCEPT
                        !.pc = "done", !.chatClient = TRUE,
                        !.eventSubListener = TRUE,
                        !.isConnectedRef = (connection.effect = "useChatService")]
    /\ isConnected' = IF connection.effect = "App" THEN TRUE ELSE isConnected
    /\ UNCHANGED <<now, messages, dbMessages, viewers, recentMessageCache,
                   userBadges, handlers, deletions, ipcRequests, wire, sends,
                   consoleErrors, lastReadMessageId, localStorage, appStarts,
                   emotes, subWire, dbSubscriptions>>

\* apiService.initialize rejects: the error is logged and nothing connects
ApiInitializeFails ==
    /\ connection.pc = "initialize"
    /\ connection' = [connection EXCEPT !.pc = "failed",
                                        !.isConnectedRef = FALSE]
    /\ consoleErrors' = consoleErrors + 1
    /\ UNCHANGED <<now, messages, dbMessages, viewers, recentMessageCache,
                   userBadges, handlers, deletions, ipcRequests, wire, sends,
                   lastReadMessageId, localStorage, appStarts, emotes,
                   isConnected, subWire, dbSubscriptions>>

\* the effect's cleanup (unmount or dependency change): App disconnects both
\* services, the hook only when its isConnectedRef is set
Cleanup ==
    /\ ~connection.cleanedUp
    /\ connection' =
          IF connection.effect = "App" \/ connection.isConnectedRef
          THEN [connection EXCEPT !.cleanedUp = TRUE, !.chatClient = FALSE,
                                  !.eventSubListener = FALSE,
                                  !.isConnectedRef = FALSE]
          ELSE [connection EXCEPT !.cleanedUp = TRUE]
    /\ UNCHANGED <<now, messages, dbMessages, viewers, recentMessageCache,
                   userBadges, handlers, deletions, ipcRequests, wire, sends,
                   consoleErrors, lastReadMessageId, localStorage, appStarts,
                   emotes, isConnected, subWire, dbSubscriptions>>

\* the chat client delivers a message of another user
ObserveNewOnClient ==
    /\ connection.chatClient
    /\ ObserveNew

\* an EventSub listener that is started delivers the deletion of a message
ObserveDeletionOnListener ==
    /\ connection.eventSubListener
    /\ ObserveDeletion

\* ------------------------------------------------ subscription events
\* INSERT INTO subscriptions ... ON CONFLICT(id) DO NOTHING
insertSubscription(table, subscription) ==
    IF subscription.id \in SeqIds(table) THEN table
    ELSE Append(table, [subscription EXCEPT
                           !.timestamp = toISOString(subscription.timestamp)])

\* EventSub delivers the notification that a user has subscribed, for the
\* first time or once more (at-least-once delivery); the subscription handler
\* adds the event to the view and sends it to the store
ObserveSubscription ==
    \E userId \in Users \ {currentUserId} :
        /\ Len(subWire) < MaxSubscriptions
        /\ subWire' = Append(subWire, [userId |-> userId, at |-> now])
        /\ messages' = addSubscription(messages, SubscriptionEvent(userId, now))
        /\ ipcRequests' = Append(ipcRequests,
              Request("sub", Len(subWire) + 1, "insertSubscription",
                      SubscriptionEvent(userId, now)))
        /\ UNCHANGED <<now, dbMessages, viewers, recentMessageCache, userBadges,
                       handlers, deletions, wire, sends, consoleErrors,
                       lastReadMessageId, localStorage, appStarts, emotes,
                       isConnected, dbSubscriptions, connection>>

\* the main process serves insertSubscription
SubInsertSubscription ==
    /\ Serving("sub", "insertSubscription")
    /\ dbSubscriptions' =
          insertSubscription(dbSubscriptions, Head(ipcRequests).arg)
    /\ ipcRequests' = Tail(ipcRequests)
    /\ UNCHANGED <<now, messages, dbMessages, viewers, recentMessageCache,
                   userBadges, handlers, deletions, wire, sends, consoleErrors,
                   lastReadMessageId, localStorage, appStarts, emotes,
                   isConnected, subWire, connection>>

\* ------------------------------------------------------------------ clock
Tick ==
    /\ now + TickMs <= MaxTime
    /\ now' = now + TickMs
    /\ UNCHANGED <<messages, dbMessages, viewers, recentMessageCache, userBadges,
                   handlers, deletions, ipcRequests, wire, sends, consoleErrors,
                   lastReadMessageId, localStorage, appStarts, emotes,
                   isConnected,
                   subWire, dbSubscriptions, connection>>

Next ==
    \/ ObserveNew
    \/ ObserveEcho
    \/ ObserveAgain
    \/ MsgUpsertViewer
    \/ MsgFindRecentSelfMessage
    \/ MsgUpdateMessage
    \/ MsgInsertMessage
    \/ SendMessage
    \/ SayResolved
    \/ SendInsertMessage
    \/ ObserveDeletion
    \/ DeletedMarkMessageAsDeleted
    \/ HandleDeleteMessage
    \/ DeleteApiResolved
    \/ Tick

Spec == Init /\ [][Next]_vars



\* the chat stream alone: messages arrive and are sent, nothing is deleted
NextStream ==
    \/ ObserveNew
    \/ ObserveEcho
    \/ ObserveAgain
    \/ MsgUpsertViewer
    \/ MsgFindRecentSelfMessage
    \/ MsgUpdateMessage
    \/ MsgInsertMessage
    \/ SendMessage
    \/ SayResolved
    \/ SendInsertMessage
    \/ Tick

SpecStream == Init /\ [][NextStream]_vars

\* the local user sends; an echo, if it comes, comes after sendMessage has
\* returned
NextEchoAfterSend ==
    \/ ObserveEchoAfterSend
    \/ MsgUpsertViewer
    \/ MsgFindRecentSelfMessage
    \/ MsgUpdateMessage
    \/ MsgInsertMessage
    \/ SendMessage
    \/ SayResolved
    \/ SendInsertMessage
    \/ Tick

SpecEchoAfterSend == Init /\ [][NextEchoAfterSend]_vars

\* the local user sends several messages, and each of them is echoed
NextSendBurst ==
    \/ ObserveEchoOfEverySend
    \/ MsgUpsertViewer
    \/ MsgFindRecentSelfMessage
    \/ MsgUpdateMessage
    \/ MsgInsertMessage
    \/ SendMessage
    \/ SayResolved
    \/ SendInsertMessage
    \/ Tick

SpecSendBurst == Init /\ [][NextSendBurst]_vars

\* the local user sends, and the remote send may fail
NextSendFailure ==
    \/ ObserveNew
    \/ MsgUpsertViewer
    \/ MsgInsertMessage
    \/ SendMessage
    \/ SayResolved
    \/ SayRejected
    \/ SendInsertMessage
    \/ Tick

SpecSendFailure == Init /\ [][NextSendFailure]_vars

\* the chat stream until the user logs out, and the calls then in progress
NextLogout ==
    \/ ObserveNewConnected
    \/ MsgUpsertViewer
    \/ MsgInsertMessage
    \/ SendMessageConnected
    \/ SayResolved
    \/ SendInsertMessage
    \/ Logout
    \/ Tick

SpecLogout == Init /\ [][NextLogout]_vars

\* chat messages and subscription events arrive
NextSubscriptions ==
    \/ ObserveNew
    \/ MsgUpsertViewer
    \/ MsgInsertMessage
    \/ ObserveSubscription
    \/ SubInsertSubscription
    \/ Tick

SpecSubscriptions == Init /\ [][NextSubscriptions]_vars

\* the services connect, deliver messages and deletions, and are cleaned up
NextConnection ==
    \/ ApiInitialized
    \/ ApiInitializeFails
    \/ Cleanup
    \/ ObserveNewOnClient
    \/ MsgUpsertViewer
    \/ MsgInsertMessage
    \/ ObserveDeletionOnListener
    \/ DeletedMarkMessageAsDeleted

SpecConnection == InitConnect /\ [][NextConnection]_vars

\* the chat stream, and the user marking messages as read
NextReadState ==
    \/ ObserveNew
    \/ ObserveEcho
    \/ ObserveAgain
    \/ MsgUpsertViewer
    \/ MsgFindRecentSelfMessage
    \/ MsgUpdateMessage
    \/ MsgInsertMessage
    \/ SendMessage
    \/ SayResolved
    \/ SendInsertMessage
    \/ MarkAsRead
    \/ MarkAllAsRead
    \/ Tick

SpecReadState == Init /\ [][NextReadState]_vars

\* other users chat and a moderator deletes their messages
NextModeration ==
    \/ ObserveNew
    \/ MsgUpsertViewer
    \/ MsgInsertMessage
    \/ ObserveDeletion
    \/ DeletedMarkMessageAsDeleted
    \/ Tick

SpecModeration == Init /\ [][NextModeration]_vars

\* the chat stream with a store whose writes can be rejected
NextStorageFailure ==
    \/ ObserveNew
    \/ ObserveEcho
    \/ MsgUpsertViewer
    \/ MsgFindRecentSelfMessage
    \/ MsgUpdateMessage
    \/ MsgUpdateMessageFails
    \/ MsgInsertMessage
    \/ MsgInsertMessageFails
    \/ SendMessage
    \/ SayResolved
    \/ SendInsertMessage
    \/ SendInsertMessageFails
    \/ Tick

SpecStorageFailure == Init /\ [][NextStorageFailure]_vars

\* the chat stream with a viewers table whose upsert can be rejected
NextViewerFailure ==
    \/ ObserveNew
    \/ ObserveEcho
    \/ MsgUpsertViewer
    \/ MsgUpsertViewerFails
    \/ MsgFindRecentSelfMessage
    \/ MsgUpdateMessage
    \/ MsgInsertMessage
    \/ SendMessage
    \/ SayResolved
    \/ SendInsertMessage
    \/ Tick

SpecViewerFailure == Init /\ [][NextViewerFailure]_vars

\* other users chat, the user marks messages read, logs out, restarts the app
NextRestart ==
    \/ ObserveNew
    \/ MsgUpsertViewer
    \/ MsgInsertMessage
    \/ MarkAsRead
    \/ MarkAllAsRead
    \/ ClearMessages
    \/ Restart
    \/ Tick

SpecRestart == Init /\ [][NextRestart]_vars

\* the viewers table under upserts of users whose names change
NextViewers ==
    \/ UpsertViewerCall

SpecViewers == Init /\ [][NextViewers]_vars

\* messages with emotes are parsed for rendering
NextEmotes ==
    \/ ParseEmotes

SpecEmotes == InitEmotes /\ [][NextEmotes]_vars

\* ================================================================ claims

\* the onMessage call p reaches its onMessageCallback in this step
Completing(p) ==
    /\ handlers[p].pc \in {"insertMessage", "updateMessage"}
    /\ handlers'[p].pc = "done"

\* no handler is between two awaits and no request is queued
Quiescent ==
    /\ ipcRequests = << >>
    /\ \A p \in DOMAIN handlers : handlers[p].pc = "done"
    /\ \A s \in DOMAIN sends : sends[s].pc = "done"
    /\ \A d \in DOMAIN deletions : deletions[d].pc = "done"

\* the local-pending messages in the view that a message echoes within w ms
PendingWithin(view, m, w) ==
    {i \in DOMAIN view :
        /\ startsWithSelf(view[i].id)
        /\ view[i].userId = m.userId
        /\ view[i].message = m.message
        /\ Abs(view[i].timestamp - m.timestamp) < w}

Occurrences(table, id) == Cardinality({i \in DOMAIN table : table[i].id = id})

\* C1: when the echo of a local send reaches the view while the pending
\* message of that send is in the view and is the only pending message of that
\* author and body posted within the merge window, the view keeps its length
\* and the slot of that pending message now holds the echo (server id, server
\* fields).
C1_ReconciliationReplaces ==
    [][\A p \in DOMAIN handlers : \A s \in DOMAIN sends :
        (/\ Completing(p)
         /\ handlers[p].msg.id = sends[s].echoId
         /\ handlers[p].msg.id \notin SeqIds(messages)
         /\ \E i \in DOMAIN messages :
               /\ messages[i].id = SelfMessageId(s)
               /\ PendingWithin(messages, handlers[p].msg, WithinMs) = {i})
        => \E i \in DOMAIN messages :
              /\ messages[i].id = SelfMessageId(s)
              /\ messages' = [messages EXCEPT ![i] = handlers[p].msg]
              /\ messages'[i].badges = ServerBadges(handlers[p].msg.userId)]_vars

\* C2: for every local send, at most one record (the pending one or the echo)
\* is in the view, and at most one is in the store.
C2_NeverDuplicated ==
    \A s \in DOMAIN sends :
        /\ Cardinality({i \in DOMAIN messages :
              messages[i].id \in {SelfMessageId(s), sends[s].echoId}}) <= 1
        /\ Cardinality({i \in DOMAIN dbMessages :
              dbMessages[i].id \in {SelfMessageId(s), sends[s].echoId}}) <= 1

\* C3: serving an insertMessage whose id is already stored leaves the table
\* as it was, logs no error, and the table holds one row for that id.
C3_IdempotentInsert ==
    [][(/\ ipcRequests # << >>
        /\ Head(ipcRequests).op = "insertMessage"
        /\ Head(ipcRequests).arg.id \in SeqIds(dbMessages)
        /\ ipcRequests' = Tail(ipcRequests))
       => /\ dbMessages' = dbMessages
          /\ consoleErrors' = consoleErrors
          /\ Occurrences(dbMessages', Head(ipcRequests).arg.id) = 1]_vars

\* a message of another user was delivered twice, both handlers have inserted
\* it, and the store holds it once
C3_Witness ==
    \E p, q \in DOMAIN handlers :
        /\ p < q
        /\ handlers[p].pc = "done"
        /\ handlers[q].pc = "done"
        /\ handlers[p].msg.id = handlers[q].msg.id
        /\ wire[handlers[p].msg.id[2]].userId # currentUserId
        /\ Occurrences(dbMessages, handlers[p].msg.id) = 1

\* C4: no two rows of the messages table share an id.
C4_UniqueCanonicalId ==
    \A i, j \in DOMAIN dbMessages :
        i # j => dbMessages[i].id # dbMessages[j].id

\* an updateMessage whose new id was already stored has been rejected, and the
\* local-pending row and the canonical row are both still there
C4_Witness ==
    /\ consoleErrors > 0
    /\ \E s \in DOMAIN sends :
          /\ SelfMessageId(s) \in SeqIds(dbMessages)
          /\ sends[s].echoId \in SeqIds(dbMessages)

\* C5: a slot of the view that is flagged deleted stays flagged, and a row of
\* the store that is flagged deleted stays flagged, whatever the step.
C5_DeletedMonotonic ==
    [][/\ \A i \in DOMAIN messages :
            messages[i].isDeleted =>
                (i \in DOMAIN messages' /\ messages'[i].isDeleted)
       /\ \A i \in DOMAIN dbMessages :
            dbMessages[i].isDeleted = 1 =>
                (i \in DOMAIN dbMessages' /\ dbMessages'[i].isDeleted = 1)]_vars


\* C6: whenever nothing is in progress, the view that loadFromDatabase would
\* rebuild from the store equals the view that was built live.
C6_ReplayEquivalence ==
    Quiescent =>
        \A plan \in QueryPlans :
            loadFromDatabase(getRecentMessages(dbMessages, viewers, currentUserId,
                                               RecentLimit, plan)) = messages

\* an observed message that is the echo of no local send and looks like none
Unrelated(m) ==
    /\ ~startsWithSelf(m.id)
    /\ ~\E s \in DOMAIN sends :
            m.userId = currentUserId /\ m.message = sends[s].msg.message

\* C7: two observed messages that no local send relates to stand in the view
\* in the order of their timestamps, whatever local sends went on meanwhile.
C7_OrderStability ==
    \A i, j \in DOMAIN messages :
        (/\ Unrelated(messages[i])
         /\ Unrelated(messages[j])
         /\ messages[i].timestamp < messages[j].timestamp)
        => i < j

\* two unrelated observed messages with increasing timestamps, and the
\* local-pending message of a send between them in the view
C7_Witness ==
    \E i, j, k \in DOMAIN messages :
        /\ i < k
        /\ k < j
        /\ Unrelated(messages[i])
        /\ Unrelated(messages[j])
        /\ messages[i].timestamp < messages[j].timestamp
        /\ startsWithSelf(messages[k].id)

\* C8: of two onMessage calls for different events, the one that arrived
\* later has not been written to the store and added to the view while the
\* earlier one is still on its way.
C8_ArrivalOrder ==
    \A p, q \in DOMAIN handlers :
        (/\ p < q
         /\ handlers[p].msg.id # handlers[q].msg.id
         /\ handlers[q].pc = "done")
        => handlers[p].pc = "done"

\* C9: a local-pending message that saw no matching message arrive before its
\* merge window elapsed keeps its pending id in the view and in the store.
C9_MissIsTerminal ==
    \A s \in DOMAIN sends :
        (/\ sends[s].pc = "done"
         /\ ~sends[s].observedInWindow
         /\ now - sends[s].msg.timestamp >= WithinMs)
        => /\ SelfMessageId(s) \in SeqIds(messages)
           /\ SelfMessageId(s) \in SeqIds(dbMessages)

\* C10: every row of the messages table has a viewers row for its userId.
C10_IdentityForEveryMessage ==
    \A i \in DOMAIN dbMessages : dbMessages[i].userId \in ViewerIds(viewers)

\* C20: markAsRead with the id of a message of the view makes that id the
\* watermark, whatever the watermark was, and the messages the list then shows
\* as read are exactly those at or before the position of that message.
C20_MarkReadSetsWatermark ==
    \A messageId \in SeqIds(messages) :
        LET watermark == markAsRead(messages, lastReadMessageId, messageId)
        IN /\ watermark = messageId
           /\ \A i \in DOMAIN messages :
                 isRead(messages, watermark, i)
                     <=> i <= findIndex(messages, messageId)

\* a message in the middle of the view carries the watermark: the messages up
\* to it are read, the one after it is not
C20_Witness ==
    /\ Len(messages) = 3
    /\ lastReadMessageId = messages[2].id
    /\ isRead(messages, lastReadMessageId, 1)
    /\ isRead(messages, lastReadMessageId, 2)
    /\ ~isRead(messages, lastReadMessageId, 3)

\* C11: serving an updateMessage either leaves the messages table as it was
\* (no row holds the pending id, or the statement throws) or rewrites the one
\* row at the pending id in that same step: it then carries the canonical id,
\* badges and timestamp, the pending id is gone, the canonical id is stored
\* once, and every other row is as before.
C11_ReconcileAtomic ==
    [][(/\ ipcRequests # << >>
        /\ Head(ipcRequests).op = "updateMessage"
        /\ ipcRequests' = Tail(ipcRequests))
       => LET oldId == Head(ipcRequests).arg.oldId
              updates == Head(ipcRequests).arg.updates
          IN \/ dbMessages' = dbMessages
             \/ \E i \in DOMAIN dbMessages :
                   /\ dbMessages[i].id = oldId
                   /\ dbMessages' = [dbMessages EXCEPT ![i] =
                         [@ EXCEPT !.id = updates.id,
                                   !.badges = updates.badges,
                                   !.timestamp = toISOString(updates.timestamp)]]
                   /\ oldId \notin SeqIds(dbMessages')
                   /\ Occurrences(dbMessages', updates.id) = 1]_vars

\* a pending row written with the badges sendMessage made up has been
\* reconciled: the store holds the echo's id with the server's badges, and the
\* pending id is gone
C11_Witness ==
    \E s \in DOMAIN sends :
        /\ sends[s].pc = "done"
        /\ sends[s].msg.badges # ServerBadges(currentUserId)
        /\ SelfMessageId(s) \notin SeqIds(dbMessages)
        /\ \E i \in DOMAIN dbMessages :
              /\ dbMessages[i].id = sends[s].echoId
              /\ dbMessages[i].badges = ServerBadges(currentUserId)

\* the deletion handler starts for message x in this step
DeletionObserved(x) ==
    /\ Len(deletions') = Len(deletions) + 1
    /\ Last(deletions').pc = "markMessageAsDeleted"
    /\ Last(deletions').messageId = x

\* the store serves the markMessageAsDeleted request for message x in this step
DeletionStored(x) ==
    /\ ipcRequests # << >>
    /\ Head(ipcRequests).op = "markMessageAsDeleted"
    /\ Head(ipcRequests).arg.messageId = x
    /\ ipcRequests' = Tail(ipcRequests)

AllIds == SeqIds(messages) \cup SeqIds(dbMessages) \cup {ServerId(k) : k \in DOMAIN wire}

C13_DeletionFrame ==
    [][\A x \in AllIds :
        /\ DeletionObserved(x)
              => /\ Len(messages') = Len(messages)
                 /\ \A i \in DOMAIN messages :
                       messages'[i] = IF messages[i].id = x
                                      THEN [messages[i] EXCEPT !.isDeleted = TRUE]
                                      ELSE messages[i]
                 /\ dbMessages' = dbMessages
                 /\ viewers' = viewers
        /\ DeletionStored(x)
              => /\ Len(dbMessages') = Len(dbMessages)
                 /\ \A i \in DOMAIN dbMessages :
                       dbMessages'[i] = IF dbMessages[i].id = x
                                        THEN [dbMessages[i] EXCEPT !.isDeleted = 1]
                                        ELSE dbMessages[i]
                 /\ messages' = messages
                 /\ viewers' = viewers]_vars

\* a deletion has been processed between two other messages: the first and
\* the third are unflagged in view and store, the second is flagged in both
C13_Witness ==
    /\ Len(messages) = 3 /\ Len(dbMessages) = 3
    /\ \E d \in DOMAIN deletions :
          /\ deletions[d].pc = "done"
          /\ deletions[d].messageId = messages[2].id
    /\ ~messages[1].isDeleted /\ messages[2].isDeleted /\ ~messages[3].isDeleted
    /\ \A i \in DOMAIN dbMessages :
          (dbMessages[i].isDeleted = 1) <=> (dbMessages[i].id = messages[2].id)

\* the rows stored for a user in a channel, flagged or not
RowsOf(table, userId, channelId) ==
    {i \in DOMAIN table :
        table[i].userId = userId /\ table[i].channelId = channelId}

\* C14: the count of a user's messages in a channel is the number of rows
\* stored for that user in that channel, rows flagged deleted included, and
\* flagging a message deleted leaves the count of every user unchanged
C14_CountIncludesDeleted ==
    [][\A userId \in Users :
        /\ getMessageCountByUserId(dbMessages', userId, broadcasterId)
              = Cardinality(RowsOf(dbMessages', userId, broadcasterId))
        /\ (\E x \in AllIds : DeletionStored(x))
              => getMessageCountByUserId(dbMessages', userId, broadcasterId)
                    = getMessageCountByUserId(dbMessages, userId, broadcasterId)]_vars

\* a user has two rows stored, one of them flagged deleted, and the count is 2
C14_Witness ==
    \E userId \in Users :
        /\ getMessageCountByUserId(dbMessages, userId, broadcasterId) = 2
        /\ \E i, j \in RowsOf(dbMessages, userId, broadcasterId) :
              dbMessages[i].isDeleted = 1 /\ dbMessages[j].isDeleted = 0
        /\ \E d \in DOMAIN deletions : deletions[d].pc = "done"

C16_ForwardChronological ==
    \A i, j \in DOMAIN messages :
        i < j => messages[i].timestamp <= messages[j].timestamp

\* C17: the view rebuilt from the store is ordered by timestamp, and rows with
\* equal timestamps are in the order in which they were inserted, whatever
\* plan the query runs with
C17_RestartOrder ==
    \A plan \in QueryPlans :
        LET view == loadFromDatabase(getRecentMessages(dbMessages, viewers,
                                        currentUserId, RecentLimit, plan))
        IN \A i, j \in DOMAIN view :
              i < j =>
                \/ view[i].timestamp < view[j].timestamp
                \/ /\ view[i].timestamp = view[j].timestamp
                   /\ IndexOfId(dbMessages, view[i].id)
                         < IndexOfId(dbMessages, view[j].id)

\* the store rejects the write at the head of the queue in this step
WriteRejected ==
    /\ ipcRequests # << >>
    /\ Head(ipcRequests).op \in {"insertMessage", "updateMessage"}
    /\ ipcRequests' = Tail(ipcRequests)
    /\ consoleErrors' = consoleErrors + 1

\* C18: a store write that fails during onMessage or sendMessage is caught
\* and logged and does not unwind the call: the store is left as it was, the
\* message is in the view after the step, the call has finished, and every
\* other call and every queued request is left as it was
C18_FailedWriteDelivered ==
    [][WriteRejected =>
        LET req == Head(ipcRequests)
            p == req.proc
            id == IF req.kind = "msg" THEN handlers[p].msg.id ELSE sends[p].msg.id
        IN /\ dbMessages' = dbMessages
           /\ id \in SeqIds(messages')
           /\ IF req.kind = "msg" THEN handlers'[p].pc = "done"
                                   ELSE sends'[p].pc = "done"
           /\ \A q \in DOMAIN handlers :
                 (req.kind # "msg" \/ q # p) => handlers'[q] = handlers[q]
           /\ \A q \in DOMAIN sends :
                 (req.kind # "send" \/ q # p) => sends'[q] = sends[q]]_vars

\* the insert of a sent message was rejected: the pending message is in the
\* view and not in the store, and a message processed after it is in the
\* view behind it and in the store
C18_Witness ==
    /\ consoleErrors > 0
    /\ \E s \in DOMAIN sends :
          /\ sends[s].pc = "done"
          /\ SelfMessageId(s) \notin SeqIds(dbMessages)
          /\ \E i, j \in DOMAIN messages :
                /\ i < j
                /\ messages[i].id = SelfMessageId(s)
                /\ ~startsWithSelf(messages[j].id)
                /\ messages[j].id \in SeqIds(dbMessages)

\* C19: a rejected upsertViewer is logged and not fatal: the viewers table is
\* left as it was and the handler goes on to its lookup or insert; and the
\* insert of a message is served, and the message added to the view, whether
\* the viewers table has a row for its author or not
C19_ViewerFailureNotFatal ==
    [][/\ (/\ ipcRequests # << >>
           /\ Head(ipcRequests).op = "upsertViewer"
           /\ consoleErrors' = consoleErrors + 1)
          => LET p == Head(ipcRequests).proc
             IN /\ viewers' = viewers
                /\ handlers'[p].pc \in {"insertMessage", "findRecentSelfMessage"}
                /\ Len(ipcRequests') = Len(ipcRequests)
                /\ Last(ipcRequests').proc = p
                /\ Last(ipcRequests').op = handlers'[p].pc
       /\ (/\ ipcRequests # << >>
           /\ Head(ipcRequests).op = "insertMessage"
           /\ Head(ipcRequests).kind = "msg"
           /\ ipcRequests' = Tail(ipcRequests))
          => LET id == handlers[Head(ipcRequests).proc].msg.id
             IN /\ id \in SeqIds(dbMessages')
                /\ id \in SeqIds(messages')]_vars

\* the upsert of another user's viewer row was rejected, and the message is
\* in the store and in the view although its author has no viewers row
C19_Witness ==
    /\ consoleErrors > 0
    /\ \E p \in DOMAIN handlers :
          /\ handlers[p].pc = "done"
          /\ wire[handlers[p].msg.id[2]].userId \notin ViewerIds(viewers)
          /\ wire[handlers[p].msg.id[2]].userId # currentUserId
          /\ handlers[p].msg.id \in SeqIds(dbMessages)
          /\ handlers[p].msg.id \in SeqIds(messages)

\* C21: markAllAsRead makes the id of the last message of the view the
\* watermark, whatever the watermark was, and every message of the view is
\* then shown as read; with an empty view it leaves the watermark as it is
C21_MarkAllReadSetsLast ==
    LET watermark == markAllAsRead(messages, lastReadMessageId)
    IN IF messages = << >> THEN watermark = lastReadMessageId
       ELSE /\ watermark = messages[Len(messages)].id
            /\ \A i \in DOMAIN messages : isRead(messages, watermark, i)

\* the watermark is on the last of three messages and it is the persisted one
C21_Witness ==
    /\ Len(messages) = 3
    /\ lastReadMessageId = messages[3].id
    /\ localStorage = messages[3].id
    /\ \A i \in DOMAIN messages : isRead(messages, lastReadMessageId, i)

\* C22: the watermark is kept under its own localStorage item: the item
\* changes only when markAsRead or markAllAsRead sets it, whatever happens to
\* the messages, and when the app has been started again the watermark in
\* memory is the value of the item
C22_WatermarkRestored ==
    [][/\ localStorage' # localStorage => localStorage' = lastReadMessageId'
       /\ appStarts' # appStarts => lastReadMessageId' = localStorage]_vars

\* C23: when the remote delete command of handleDeleteMessage reports
\* failure, the message is not flagged deleted in the view
C23_FailedDeleteNotFlagged ==
    [][\A d \in DOMAIN deletions :
        (/\ deletions[d].pc = "deleteMessage"
         /\ deletions'[d].pc = "done"
         /\ deletions'[d].success = FALSE)
        => messages' = messages]_vars

\* the rows of pending messages of a user in a channel with a body, posted
\* less than withinMs before t
PendingMatches(table, userId, channelId, body, withinMs, t) ==
    {i \in DOMAIN table :
        /\ table[i].id[1] = "self"
        /\ table[i].userId = userId
        /\ table[i].channelId = channelId
        /\ table[i].message = body
        /\ t - DateParse(table[i].timestamp) < withinMs}

\* C24: findRecentSelfMessage returns no row when the store holds no pending
\* message of the user in the channel with exactly that body posted within
\* the window, and otherwise returns the id of such a message than which none
\* is more recent; what it returns is never a canonical id
C24_FindPendingSelf ==
    \A userId \in Users, body \in Bodies, withinMs \in {WithinMs, ViewWindowMs} :
        LET match == PendingMatches(dbMessages, userId, broadcasterId, body,
                                    withinMs, now)
        IN \A r \in findRecentSelfMessage(dbMessages, userId, broadcasterId,
                                          body, withinMs, now) :
              IF match = {} THEN r = NoId
              ELSE /\ r[1] = "self"
                   /\ \E i \in match :
                         /\ dbMessages[i].id = r
                         /\ \A j \in match :
                               DateParse(dbMessages[j].timestamp)
                                  <= DateParse(dbMessages[i].timestamp)

\* the store holds an older and a newer pending message with one body and a
\* canonical message of the same user with that body, and the lookup over
\* the wide window returns the newer pending one
C24_Witness ==
    \E body \in Bodies :
        LET match == PendingMatches(dbMessages, currentUserId, broadcasterId,
                                    body, ViewWindowMs, now)
        IN /\ \E i, j \in match :
                 DateParse(dbMessages[i].timestamp)
                    < DateParse(dbMessages[j].timestamp)
           /\ \E k \in DOMAIN dbMessages :
                 /\ dbMessages[k].id[1] = "srv"
                 /\ dbMessages[k].userId = currentUserId
                 /\ dbMessages[k].message = body
           /\ \E r \in findRecentSelfMessage(dbMessages, currentUserId,
                           broadcasterId, body, ViewWindowMs, now) : r[1] = "self"

\* the rows stored for a channel
ChannelRows(table, channelId) ==
    {i \in DOMAIN table : table[i].channelId = channelId}

\* C25: getRecentMessages(channelId, limit) returns the `limit` most recent
\* messages stored for the channel, all of them when fewer are stored, oldest
\* first: as many rows as the smaller of limit and the number stored, in
\* ascending order of timestamp, and no stored message that is left out is
\* more recent than one that is returned
C25_RecentEvents ==
    \A limit \in {1, 2, RecentLimit}, plan \in QueryPlans :
        LET rows == getRecentMessages(dbMessages, viewers, broadcasterId,
                                      limit, plan)
            stored == ChannelRows(dbMessages, broadcasterId)
            returned == {rows[k].id : k \in DOMAIN rows}
        IN /\ Len(rows) = IF Cardinality(stored) < limit
                          THEN Cardinality(stored) ELSE limit
           /\ \A k \in DOMAIN rows : \E i \in stored : dbMessages[i].id = rows[k].id
           /\ \A k, l \in DOMAIN rows :
                 k < l => DateParse(rows[k].timestamp) <= DateParse(rows[l].timestamp)
           /\ \A i \in stored, k \in DOMAIN rows :
                 dbMessages[i].id \notin returned
                    => DateParse(dbMessages[i].timestamp)
                          <= DateParse(rows[k].timestamp)

\* the rows of the viewers table with an id
ViewerRowsOf(table, id) == {i \in DOMAIN table : table[i].id = id}

\* C26: upsertViewer is insert-or-update, the last write wins: whatever
\* upserts built the table, it holds at most one row for an id, and after an
\* upsert it holds exactly one row for that id, with the names of that
\* upsert, and the rows of every other id as before
C26_UpsertLastWriteWins ==
    /\ \A id \in Users : Cardinality(ViewerRowsOf(viewers, id)) <= 1
    /\ \A id \in Users, username \in ViewerNames, displayName \in ViewerNames :
          LET after == upsertViewer(viewers, id, username, displayName)
          IN /\ Cardinality(ViewerRowsOf(after, id)) = 1
             /\ \A i \in ViewerRowsOf(after, id) :
                   after[i] = [id |-> id, username |-> username,
                               displayName |-> displayName]
             /\ \A other \in Users \ {id} :
                   {after[i] : i \in ViewerRowsOf(after, other)}
                      = {viewers[i] : i \in ViewerRowsOf(viewers, other)}

\* both users have been upserted, under different names
C26_Witness ==
    /\ Len(viewers) = 2
    /\ viewers[1].id # viewers[2].id
    /\ viewers[1].username = "bob" /\ viewers[1].displayName = "bob"
    /\ viewers[2].username = "ann" /\ viewers[2].displayName = "Ann"

\* C27: markMessageAsDeleted is idempotent: in every store, for every message
\* id, applying it a second time gives the table that the first application
\* gave
C27_MarkDeletedIdempotent ==
    \A x \in AllIds :
        markMessageAsDeleted(markMessageAsDeleted(dbMessages, x), x)
            = markMessageAsDeleted(dbMessages, x)

\* a deletion has been stored for a message next to an unflagged one, and the
\* same deletion applied to the store again changes nothing
C27_Witness ==
    \E d \in DOMAIN deletions :
        /\ deletions[d].pc = "done"
        /\ \E i, j \in DOMAIN dbMessages :
              /\ dbMessages[i].id = deletions[d].messageId
              /\ dbMessages[i].isDeleted = 1
              /\ dbMessages[j].isDeleted = 0
        /\ markMessageAsDeleted(dbMessages, deletions[d].messageId) = dbMessages

RecordsOfSend(list, s) ==
    {i \in DOMAIN list : list[i].id \in {SelfMessageId(s), sends[s].echoId}}

\* C29: when the echo of a local send was delivered while sendMessage was
\* still awaiting the remote send, and everything has completed, the view and
\* the store each hold exactly one record of that send.
C29_EarlyEchoOneRecord ==
    \A s \in DOMAIN sends :
        (Quiescent /\ sends[s].echoedDuring = "say")
        => /\ Cardinality(RecordsOfSend(messages, s)) = 1
           /\ Cardinality(RecordsOfSend(dbMessages, s)) = 1

\* the handler of the echo of a send
EchoHandlerOf(s) ==
    CHOOSE p \in DOMAIN handlers : handlers[p].msg.id = sends[s].echoId

\* the echo of a send reached its handler within w ms of the send
EchoedWithin(s, w) ==
    /\ sends[s].echoId # NoId
    /\ handlers[EchoHandlerOf(s)].msg.timestamp - sends[s].msg.timestamp < w

\* C30: when the local user has sent the same body twice, each echo was
\* observed within the merge window of both sends, and everything has
\* completed, the store and the view each hold exactly two records of the two
\* sends, both with a server id, and no local-pending record.
C30_TwoSendsTwoCanonical ==
    \A s1, s2 \in DOMAIN sends :
        (/\ Quiescent
         /\ s1 < s2
         /\ sends[s1].msg.message = sends[s2].msg.message
         /\ sends[s2].msg.timestamp - sends[s1].msg.timestamp < WithinMs
         /\ EchoedWithin(s1, WithinMs) /\ EchoedWithin(s2, WithinMs)
         /\ sends[s1].echoedDuring = "done" /\ sends[s2].echoedDuring = "done"
         /\ handlers[EchoHandlerOf(s2)].msg.timestamp
               - sends[s1].msg.timestamp < WithinMs)
        => LET ids == {SelfMessageId(s1), SelfMessageId(s2),
                       sends[s1].echoId, sends[s2].echoId}
           IN /\ {messages[i].id : i \in {j \in DOMAIN messages :
                                              messages[j].id \in ids}}
                    = {sends[s1].echoId, sends[s2].echoId}
              /\ Cardinality({i \in DOMAIN messages :
                                  messages[i].id \in ids}) = 2
              /\ {dbMessages[i].id : i \in {j \in DOMAIN dbMessages :
                                                dbMessages[j].id \in ids}}
                    = {sends[s1].echoId, sends[s2].echoId}
              /\ Cardinality({i \in DOMAIN dbMessages :
                                  dbMessages[i].id \in ids}) = 2

\* C31: whenever every observe and every send has completed, the set of event
\* ids in the view equals the set of event ids in the store: the view has
\* replaced a local-pending slot by an echo exactly when the store has
\* rewritten the local-pending row.
C31_SameMergeDecision ==
    Quiescent => SeqIds(messages) = SeqIds(dbMessages)

\* C32: when the deletion of x was observed while observe(x) was in progress
\* (x not yet in the view, its store writes not completed), and everything
\* has completed, x is flagged deleted in the view and in the store.
C32_EarlyDeletionFlagsBoth ==
    \A d \in DOMAIN deletions :
        (Quiescent /\ deletions[d].early)
        => /\ \A i \in DOMAIN messages :
                 messages[i].id = deletions[d].messageId => messages[i].isDeleted
           /\ \A i \in DOMAIN dbMessages :
                 dbMessages[i].id = deletions[d].messageId
                    => dbMessages[i].isDeleted = 1

\* the platform has still to deliver the deletion of a message that the local
\* moderation action deleted remotely
DeletionEventDue ==
    \E d \in DOMAIN deletions :
        /\ deletions[d].local /\ deletions[d].pc = "done"
        /\ deletions[d].success
        /\ ~\E o \in DOMAIN deletions :
              /\ ~deletions[o].local
              /\ deletions[o].messageId = deletions[d].messageId

\* C33: whenever no operation is in progress and no deletion event is due, a
\* message that is in the view and in the store is flagged deleted in the
\* view exactly when it is flagged deleted in the store.
C33_FlagsAgree ==
    (Quiescent /\ ~DeletionEventDue)
    => \A i \in DOMAIN messages : \A j \in DOMAIN dbMessages :
          messages[i].id = dbMessages[j].id
          => (messages[i].isDeleted <=> dbMessages[j].isDeleted = 1)

\* C34: when the watermark is a local-pending message of the view and a step
\* replaces that message in place by its echo, every message that was read
\* before the step is read after it.
C34_ReconcileKeepsReadState ==
    [][\A i \in DOMAIN messages :
        (/\ messages[i].id = lastReadMessageId
         /\ startsWithSelf(messages[i].id)
         /\ Len(messages') = Len(messages)
         /\ ~startsWithSelf(messages'[i].id))
        => \A j \in DOMAIN messages :
              isRead(messages, lastReadMessageId, j)
                 => isRead(messages', lastReadMessageId', j)]_vars

\* C36: the step in which the remote send of a message fails adds nothing to
\* the view, the store, the recent-message cache or the requests to the
\* store, and no local-pending message of a failed send ever exists.
C36_FailedSendAddsNothing ==
    [][\A s \in DOMAIN sends :
        /\ (sends[s].pc = "say" /\ sends'[s].pc = "rejected")
              => /\ messages' = messages
                 /\ dbMessages' = dbMessages
                 /\ recentMessageCache' = recentMessageCache
                 /\ ipcRequests' = ipcRequests
        /\ sends[s].pc = "rejected"
              => /\ sends'[s] = sends[s]
                 /\ SelfMessageId(s) \notin SeqIds(messages') \cup SeqIds(dbMessages')
                 /\ sends[s].msg.message \in DOMAIN recentMessageCache'
                       => sends[s].msg.message \in DOMAIN recentMessageCache
                             \/ \E t \in DOMAIN sends :
                                   /\ sends[t].pc = "say"
                                   /\ sends'[t].pc = "insertMessage"]_vars

\* one send has failed and another, of the same body, has gone through: only
\* the second has a local-pending message
C36_Witness ==
    /\ Len(sends) = 2
    /\ sends[1].pc = "rejected" /\ sends[2].pc = "done"
    /\ sends[1].msg.message = sends[2].msg.message
    /\ SeqIds(messages) = {SelfMessageId(2)}
    /\ SeqIds(dbMessages) = {SelfMessageId(2)}

\* C37: once the user has logged out, the view is empty and stays empty: no
\* observe or send that was in progress at logout adds a message to it.
C37_EmptyAfterLogout ==
    ~isConnected => messages = << >>

\* the subscription events of a user in a list
SubscriptionsOf(list, userId) ==
    {i \in DOMAIN list : list[i].userId = userId /\ list[i].type = "sub"}

\* C38: when the notification of a user's subscription has been delivered,
\* once or several times, and the store has served every request, the view
\* holds exactly one record of it and the store exactly one row.
C38_SubscriptionOnce ==
    \A k \in DOMAIN subWire :
        ipcRequests = << >>
        => /\ Cardinality({i \in DOMAIN messages :
                 /\ ~isChatMessage(messages[i])
                 /\ messages[i].userId = subWire[k].userId}) = 1
           /\ Cardinality(SubscriptionsOf(dbSubscriptions,
                                          subWire[k].userId)) = 1

\* C39: once the cleanup of the connect effect has run and connect() is no
\* longer in progress, the chat client and the EventSub listener are
\* disconnected.
C39_DisconnectedAfterCleanup ==
    (connection.cleanedUp /\ connection.pc # "initialize")
    => (~connection.chatClient /\ ~connection.eventSubListener)

====
